---------------------------- MODULE Spec2Model ----------------------------
(***************************************************************************)
(* Document-Intelligence-System: the retrieval pipeline of backend/main.py *)
(* and backend/rag/{embeddings,indexing,retrieval,answering}.py.           *)
(*                                                                         *)
(* Specifications                                                          *)
(*   Spec        upload_pdf and build_index_for_doc over the data directory*)
(*   ChunkSpec   chunk_text, one action per step of its while loop         *)
(*   SearchSpec  search_doc over a document directory found on disk        *)
(*   AnswerSpec  answer_with_citations                                     *)
(*   ConcSpec    build_index_for_doc and search_doc interleaved            *)
(*   EmbedSpec   concurrent first calls of _get_model                      *)
(***************************************************************************)
EXTENDS Integers, Sequences, FiniteSets, TLC

VARIABLES chunksFile, indexFile, metaFile, last, chunker, threads, model

vars == <<chunksFile, indexFile, metaFile, last, chunker, threads, model>>

\* Python's None.
None == "None"

\* A file of the data directory: Absent, or File(content).
Absent == <<>>
File(content) == <<content>>
Content(f) == f[1]

Min(a, b) == IF a <= b THEN a ELSE b

(***************************************************************************)
(* Text.  A Python str is kept run-length encoded: a sequence of runs      *)
(* <<character, count>> with count > 0 and no two adjacent runs of the     *)
(* same character, so that equal strings are equal values.                 *)
(***************************************************************************)
RECURSIVE TLen(_)
TLen(t) == IF t = <<>> THEN 0 ELSE Head(t)[2] + TLen(Tail(t))

RECURSIVE Take(_, _)
Take(t, n) ==
    IF n <= 0 \/ t = <<>> THEN <<>>
    ELSE IF Head(t)[2] >= n THEN << <<Head(t)[1], n>> >>
    ELSE <<Head(t)>> \o Take(Tail(t), n - Head(t)[2])

RECURSIVE Drop(_, _)
Drop(t, n) ==
    IF n <= 0 \/ t = <<>> THEN t
    ELSE IF Head(t)[2] > n THEN << <<Head(t)[1], Head(t)[2] - n>> >> \o Tail(t)
    ELSE Drop(Tail(t), n - Head(t)[2])

\* text[start:end] for 0 <= start <= end (the slice is clamped to the text).
Slice(t, start, end) == Take(Drop(t, start), end - start)

\* The whitespace characters of the texts modelled.
Whitespace == {" ", "\n"}

\* text.strip()
RECURSIVE LStrip(_)
LStrip(t) == IF t # <<>> /\ Head(t)[1] \in Whitespace THEN LStrip(Tail(t)) ELSE t

RECURSIVE RStrip(_)
RStrip(t) ==
    IF t # <<>> /\ t[Len(t)][1] \in Whitespace THEN RStrip(SubSeq(t, 1, Len(t) - 1)) ELSE t

Strip(t) == RStrip(LStrip(t))

\* The run-length encoding of a plain sequence of characters, and back.
RECURSIVE Encode(_)
Encode(s) ==
    IF s = <<>> THEN <<>>
    ELSE LET r == Encode(Tail(s))
         IN  IF r # <<>> /\ Head(r)[1] = Head(s)
             THEN << <<Head(s), Head(r)[2] + 1>> >> \o Tail(r)
             ELSE << <<Head(s), 1>> >> \o r

RECURSIVE Decode(_)
Decode(t) ==
    IF t = <<>> THEN <<>>
    ELSE [i \in 1..Head(t)[2] |-> Head(t)[1]] \o Decode(Tail(t))

Rep(c, n) == IF n = 0 THEN <<>> ELSE << <<c, n>> >>

(***************************************************************************)
(* main.py: chunk_text                                                     *)
(***************************************************************************)
CHUNK_SIZE == 1200
OVERLAP == 200

\* The argument checks of chunk_text (lines 14-17): TRUE when it raises.
ChunkArgsInvalid(chunk_size, overlap) ==
    chunk_size <= 0 \/ overlap < 0 \/ overlap >= chunk_size

\* The frame of chunk_text after lines 19-21.
ChunkFrame(text, chunk_size, overlap) ==
    [pc |-> "loop", text |-> text, chunk_size |-> chunk_size, overlap |-> overlap,
     chunks |-> <<>>, start |-> 0, stride |-> chunk_size - overlap]

\* The loop condition, line 22.
ChunkCond(f) == f.start < TLen(f.text)

\* A plausible slip: the window start advances by chunk_size, not by stride.
ChunkBodyNoOverlap(f) ==
    [f EXCEPT !.chunks = Append(f.chunks, Slice(f.text, f.start, f.start + f.chunk_size)),
              !.start = f.start + f.chunk_size]

\* One iteration of the while loop, lines 23-26.
ChunkBody(f) ==
    [f EXCEPT !.chunks = Append(f.chunks, Slice(f.text, f.start, f.start + f.chunk_size)),
              !.start = f.start + f.stride]

RECURSIVE ChunkRun(_)
ChunkRun(f) == IF ChunkCond(f) THEN ChunkRun(ChunkBody(f)) ELSE f.chunks

\* chunk_text(text, chunk_size, overlap) for valid arguments: the list returned.
chunk_text(text, chunk_size, overlap) ==
    ChunkRun(ChunkFrame(text, chunk_size, overlap))

(***************************************************************************)
(* ChunkSpec: chunk_text step by step over bounded inputs.                 *)
(***************************************************************************)
MaxTextLen == 4
MaxChunkSize == 4

Alphabet == {"a", "b"}

PlainTexts == UNION {[1..n -> Alphabet] : n \in 0..MaxTextLen}

ExampleText == Encode(<<"a", "b", "c", "d", "e", "f", "g", "h", "i", "j">>)

ChunkTexts == {Encode(s) : s \in PlainTexts} \cup {ExampleText}

Idle == [op |-> "idle"]

ChunkInit ==
    /\ chunker \in {[pc |-> "call", text |-> t, chunk_size |-> n, overlap |-> o] :
                      t \in ChunkTexts, n \in 0..MaxChunkSize, o \in (-1)..MaxChunkSize}
    /\ chunksFile = Absent /\ indexFile = Absent /\ metaFile = Absent
    /\ last = Idle /\ threads = None /\ model = None

ChunkOthers == UNCHANGED <<chunksFile, indexFile, metaFile, last, threads, model>>

\* lines 14-17: ValueError
ChunkRaise ==
    /\ chunker.pc = "call"
    /\ ChunkArgsInvalid(chunker.chunk_size, chunker.overlap)
    /\ chunker' = [chunker EXCEPT !.pc = "raised"]
    /\ ChunkOthers

\* lines 19-21
ChunkEnter ==
    /\ chunker.pc = "call"
    /\ ~ChunkArgsInvalid(chunker.chunk_size, chunker.overlap)
    /\ chunker' = ChunkFrame(chunker.text, chunker.chunk_size, chunker.overlap)
    /\ ChunkOthers

\* lines 22-26
ChunkStep ==
    /\ chunker.pc = "loop"
    /\ ChunkCond(chunker)
    /\ chunker' = ChunkBody(chunker)
    /\ ChunkOthers

\* line 28
ChunkReturn ==
    /\ chunker.pc = "loop"
    /\ ~ChunkCond(chunker)
    /\ chunker' = [chunker EXCEPT !.pc = "returned"]
    /\ ChunkOthers

ChunkNext == ChunkRaise \/ ChunkEnter \/ ChunkStep \/ ChunkReturn

ChunkSpec == ChunkInit /\ [][ChunkNext]_vars /\ WF_vars(ChunkNext)

\* The start offsets 0, stride, 2*stride, ... below len(text), counted.
WindowCount(len, stride) == (len + stride - 1) \div stride

\* The plain window text[start : start+chunk_size] of a plain sequence.
PlainWindow(s, start, chunk_size) ==
    SubSeq(s, start + 1, Min(start + chunk_size, Len(s)))

ChunkResultOk(f) ==
    LET s == Decode(f.text)
        n == WindowCount(Len(s), f.stride)
    IN  /\ Len(f.chunks) = n
        /\ \A i \in 1..n :
              /\ Decode(f.chunks[i]) = PlainWindow(s, (i - 1) * f.stride, f.chunk_size)
              /\ f.chunks[i] = Encode(Decode(f.chunks[i]))
              /\ TLen(f.chunks[i]) <= f.chunk_size
              /\ (TLen(f.chunks[i]) < f.chunk_size
                    => \A j \in i..n : TLen(f.chunks[j]) < f.chunk_size)

\* C2: for valid (chunk_size, overlap) chunk_text terminates and returns exactly
\* the windows text[start : start+chunk_size] for start = 0, stride, 2*stride, ...
\* below len(text), in order: as many chunks as such starts, each of length
\* <= chunk_size, only trailing windows shorter; "abcdefghij", 4, 1 gives
\* abcd, defg, ghij, j and the empty text gives no chunk.
C2_ChunkerResult ==
    /\ [](chunker.pc = "returned" => ChunkResultOk(chunker))
    /\ [](chunker.pc = "returned" /\ chunker.text = ExampleText
            /\ chunker.chunk_size = 4 /\ chunker.overlap = 1
          => chunker.chunks = <<Encode(<<"a", "b", "c", "d">>), Encode(<<"d", "e", "f", "g">>),
                                Encode(<<"g", "h", "i", "j">>), Encode(<<"j">>)>>)
    /\ [](chunker.pc = "returned" /\ chunker.text = <<>> => chunker.chunks = <<>>)
    /\ [](chunker.pc = "raised" => ChunkArgsInvalid(chunker.chunk_size, chunker.overlap))
    /\ <>(chunker.pc \in {"returned", "raised"})

C2_Witness ==
    /\ chunker.pc = "returned"
    /\ chunker.text = ExampleText /\ chunker.chunk_size = 4 /\ chunker.overlap = 1
    /\ Len(chunker.chunks) = 4


(***************************************************************************)
(* Records.  A JSON object / Python dict is a function from its keys;      *)
(* dict.get(key) gives None for a key that is absent.                      *)
(***************************************************************************)
Get(d, key) == IF key \in DOMAIN d THEN d[key] ELSE None

\* a + b on str
Cat(a, b) ==
    IF a = <<>> THEN b
    ELSE IF b = <<>> THEN a
    ELSE IF a[Len(a)][1] = b[1][1]
         THEN SubSeq(a, 1, Len(a) - 1) \o << <<b[1][1], a[Len(a)][2] + b[1][2]>> >> \o Tail(b)
         ELSE a \o b

\* sep.join(parts)
RECURSIVE Join(_, _)
Join(sep, parts) ==
    IF parts = <<>> THEN <<>>
    ELSE IF Len(parts) = 1 THEN parts[1]
    ELSE Cat(Cat(parts[1], sep), Join(sep, Tail(parts)))

(***************************************************************************)
(* embeddings.py.  model.encode is the external sentence-transformer: a    *)
(* deterministic map from a text to a fixed-dimension vector, here the     *)
(* 2-dimensional vector of which letters of the alphabet occur in it.      *)
(* A normalized vector is kept as its direction and squared norm; the      *)
(* inner product of two unit vectors is compared through its square.       *)
(***************************************************************************)
Has(t, c) == \E i \in 1..Len(t) : t[i][1] = c

ModelEncode(t) == <<IF Has(t, "a") THEN 1 ELSE 0, IF Has(t, "b") THEN 1 ELSE 0>>

\* _l2_normalize on one row: mat / max(norm, eps); a zero row stays zero.
Norm2(v) == v[1] * v[1] + v[2] * v[2]
l2_normalize(v) == [dir |-> v, norm2 |-> IF Norm2(v) = 0 THEN 1 ELSE Norm2(v)]

\* The instance SentenceTransformer(_MODEL_NAME) constructs.
NewModel == "SentenceTransformer"

\* _get_model, run alone: the value of _model after the call.
get_model(m) == IF m = None THEN NewModel ELSE m

\* embed_texts(texts, normalize=True): one row per text.
embed_texts(texts) == [i \in 1..Len(texts) |-> l2_normalize(ModelEncode(texts[i]))]

\* _model after embed_texts(texts): empty input returns before _get_model.
ModelAfterEmbed(m, texts) == IF texts = <<>> THEN m ELSE get_model(m)

(***************************************************************************)
(* main.py: upload_pdf                                                     *)
(***************************************************************************)
\* The records lines 67-74 append for one page.
PageChunks(doc_id, text, page_number, chunk_id) ==
    LET cs == chunk_text(text, CHUNK_SIZE, OVERLAP)
    IN  [i \in 1..Len(cs) |->
           [doc_id |-> doc_id, chunk_id |-> chunk_id + i - 1,
            page_number |-> page_number, text |-> cs[i]]]

\* The loop over pdf.pages, lines 62-75, from page_number on.
RECURSIVE ExtractChunks(_, _, _, _)
ExtractChunks(doc_id, pages, page_number, chunk_id) ==
    IF pages = <<>> THEN <<>>
    ELSE LET here == PageChunks(doc_id, Head(pages), page_number, chunk_id)
         IN  here \o ExtractChunks(doc_id, Tail(pages), page_number + 1,
                                   chunk_id + Len(here))

PREVIEW_CHARS == 500

\* The response of upload_pdf, lines 99-105.
UploadResponse(doc_id, pages, chunks) ==
    LET full_text == Join(Rep("\n", 1), pages)
    IN  [doc_id |-> doc_id, pages |-> Len(pages), chars_extracted |-> TLen(full_text),
         preview |-> Slice(full_text, 0, PREVIEW_CHARS), total_chunks |-> Len(chunks)]

(***************************************************************************)
(* indexing.py                                                             *)
(***************************************************************************)
MIN_CHARS == 30

MetaRow(c) ==
    [chunk_uid |-> Get(c, "chunk_uid"), chunk_id |-> Get(c, "chunk_id"),
     page_number |-> Get(c, "page_number")]

\* c.get("text") or ""
TextOf(c) == IF "text" \in DOMAIN c THEN c.text ELSE <<>>

\* A plausible slip: the meta row is appended before the length filter.
RECURSIVE select_meta_unfiltered(_, _)
select_meta_unfiltered(chunks, min_chars) ==
    IF chunks = <<>> THEN [texts |-> <<>>, meta |-> <<>>]
    ELSE LET c == Head(chunks)
             rest == select_meta_unfiltered(Tail(chunks), min_chars)
         IN  IF TLen(Strip(TextOf(c))) < min_chars
             THEN [texts |-> rest.texts, meta |-> <<MetaRow(c)>> \o rest.meta]
             ELSE [texts |-> <<TextOf(c)>> \o rest.texts,
                   meta |-> <<MetaRow(c)>> \o rest.meta]

\* _select_texts_and_meta(chunks, min_chars)
RECURSIVE select_texts_and_meta(_, _)
select_texts_and_meta(chunks, min_chars) ==
    IF chunks = <<>> THEN [texts |-> <<>>, meta |-> <<>>]
    ELSE LET c == Head(chunks)
             rest == select_texts_and_meta(Tail(chunks), min_chars)
         IN  IF TLen(Strip(TextOf(c))) < min_chars
             THEN rest
             ELSE [texts |-> <<TextOf(c)>> \o rest.texts,
                   meta |-> <<MetaRow(c)>> \o rest.meta]

\* A plausible slip: the index is opened and extended instead of replaced.
write_index_merging(old, index) ==
    IF old = Absent THEN File(index) ELSE File(Content(old) \o index)

\* faiss.write_index(index, path): the file's content afterwards.
write_index(old, index) == File(index)

\* json.dump(meta, open(meta_path, "w")): the file's content afterwards.
write_meta_file(old, meta) == File(meta)

\* build_index_for_doc(doc_id, write_meta) run to its end on the files
\* (chunks, index, meta) of the document directory: the outcome, the files
\* afterwards and, when it succeeds, the IndexBuildStats.
build_index_for_doc(doc_id, write_meta, chunks, index, meta) ==
    IF chunks = Absent
    THEN [outcome |-> "FileNotFoundError", index |-> index, meta |-> meta, texts |-> <<>>]
    ELSE LET sel == select_texts_and_meta(Content(chunks), MIN_CHARS)
             vectors == embed_texts(sel.texts)
         IN  IF vectors = <<>>
             THEN [outcome |-> "ValueError", index |-> index, meta |-> meta, texts |-> sel.texts]
             ELSE [outcome |-> "ok",
                   index |-> write_index(index, vectors),
                   meta |-> IF write_meta THEN write_meta_file(meta, sel.meta) ELSE meta,
                   texts |-> sel.texts,
                   stats |-> [doc_id |-> doc_id, total_chunks_loaded |-> Len(Content(chunks)),
                              total_chunks_indexed |-> Len(vectors), embedding_dim |-> 2]]

(***************************************************************************)
(* Spec: uploads and index builds over the data directory.                 *)
(***************************************************************************)
MaxPages == 2

DocIds == {"d1", "d2"}

EmptyPage == <<>>
\* 34 characters, 30 after strip(): one chunk, which is indexed
PaddedText == Rep(" ", 2) \o Rep("a", 30) \o Rep(" ", 2)
\* 1300 characters: the windows [0:1200], indexed, and [1000:1300], which is
\* 300 characters long but 10 after strip() and so is not indexed
LongText == Rep("b", 1010) \o Rep(" ", 290)

PageTexts == {EmptyPage, PaddedText, LongText}

Pdfs == UNION {[1..n -> PageTexts] : n \in 1..MaxPages}

ContentTypes == {"application/pdf", "application/x-pdf", "text/plain"}

Init ==
    /\ chunksFile = [d \in DocIds |-> Absent]
    /\ indexFile = [d \in DocIds |-> Absent]
    /\ metaFile = [d \in DocIds |-> Absent]
    /\ last = Idle
    /\ model = None
    /\ chunker = None /\ threads = None

\* upload_pdf rejected: lines 34-38.
UploadRejected ==
    \E filename \in {"", "doc.pdf"}, content_type \in ContentTypes :
        /\ filename = "" \/ content_type \notin {"application/pdf", "application/x-pdf"}
        /\ last' = [op |-> "upload",
                    outcome |-> IF filename = "" THEN "HTTP 400" ELSE "HTTP 415"]
        /\ UNCHANGED <<chunksFile, indexFile, metaFile, model, chunker, threads>>

\* upload_pdf accepted: lines 41-105; uuid4 gives an identifier not in use.
Upload ==
    \E doc_id \in DocIds, pages \in Pdfs :
        /\ chunksFile[doc_id] = Absent
        /\ LET chunks == ExtractChunks(doc_id, pages, 1, 0)
           IN  /\ chunksFile' = [chunksFile EXCEPT ![doc_id] = File(chunks)]
               /\ last' = [op |-> "upload", outcome |-> "ok",
                           value |-> UploadResponse(doc_id, pages, chunks)]
        /\ UNCHANGED <<indexFile, metaFile, model, chunker, threads>>

\* build_index_for_doc(doc_id, write_meta), lines 66-104.
Build ==
    \E doc_id \in DocIds, write_meta \in BOOLEAN :
        LET r == build_index_for_doc(doc_id, write_meta, chunksFile[doc_id],
                                     indexFile[doc_id], metaFile[doc_id])
        IN  /\ indexFile' = [indexFile EXCEPT ![doc_id] = r.index]
            /\ metaFile' = [metaFile EXCEPT ![doc_id] = r.meta]
            /\ model' = ModelAfterEmbed(model, r.texts)
            /\ last' = [op |-> "build", doc_id |-> doc_id, write_meta |-> write_meta,
                        outcome |-> r.outcome,
                        stats |-> Get(r, "stats")]
            /\ UNCHANGED <<chunksFile, chunker, threads>>

Next == UploadRejected \/ Upload \/ Build

Spec == Init /\ [][Next]_vars

(***************************************************************************)
(* Claims about Spec.                                                      *)
(***************************************************************************)
Uploaded == {d \in DocIds : chunksFile[d] # Absent}

ChunksOf(d) == Content(chunksFile[d])

\* C3: every chunk record upload_pdf persists carries a per-document sequential
\* chunk_id (0, 1, 2, ... in persisted order) and a chunk_uid, and no two
\* persisted chunk records, of one document or of several, share a chunk_uid.
C3_IngestionIdentifiers ==
    /\ \A d \in Uploaded : \A i \in 1..Len(ChunksOf(d)) :
          /\ ChunksOf(d)[i].chunk_id = i - 1
          /\ "chunk_uid" \in DOMAIN ChunksOf(d)[i]
    /\ \A d, e \in Uploaded : \A i \in 1..Len(ChunksOf(d)), j \in 1..Len(ChunksOf(e)) :
          <<d, i>> # <<e, j>>
            => Get(ChunksOf(d)[i], "chunk_uid") # Get(ChunksOf(e)[j], "chunk_uid")

\* len(text.strip()): the characters from the first to the last run that is
\* not whitespace.
StrippedLen(t) ==
    LET ink == {i \in 1..Len(t) : t[i][1] \notin Whitespace}
    IN  IF ink = {} THEN 0
        ELSE TLen(SubSeq(t, CHOOSE i \in ink : \A j \in ink : i <= j,
                            CHOOSE i \in ink : \A j \in ink : j <= i))

\* The positions in the chunk sequence of the chunks the 30-character filter keeps.
Survivors(cs) == {i \in 1..Len(cs) : StrippedLen(cs[i].text) >= MIN_CHARS}

\* The position of the n-th surviving chunk, n = 1, 2, ...
NthSurvivor(cs, n) ==
    CHOOSE i \in Survivors(cs) : Cardinality({x \in Survivors(cs) : x <= i}) = n

BuildSucceeded == last.op = "build" /\ last.outcome = "ok"

\* The index of document d has one vector per surviving chunk, in chunk order.
IndexRowsAligned(d) ==
    /\ indexFile[d] # Absent
    /\ Len(Content(indexFile[d])) = Cardinality(Survivors(ChunksOf(d)))
    /\ \A n \in 1..Cardinality(Survivors(ChunksOf(d))) :
          Content(indexFile[d])[n]
            = l2_normalize(ModelEncode(ChunksOf(d)[NthSurvivor(ChunksOf(d), n)].text))

\* The metadata of document d has one row per surviving chunk, in chunk order.
MetaRowsAligned(d) ==
    /\ metaFile[d] # Absent
    /\ Len(Content(metaFile[d])) = Cardinality(Survivors(ChunksOf(d)))
    /\ \A n \in 1..Cardinality(Survivors(ChunksOf(d))) :
          LET c == ChunksOf(d)[NthSurvivor(ChunksOf(d), n)]
              m == Content(metaFile[d])[n]
          IN  /\ DOMAIN m = {"chunk_uid", "chunk_id", "page_number"}
              /\ m.chunk_id = c.chunk_id
              /\ m.page_number = c.page_number
              /\ m.chunk_uid = Get(c, "chunk_uid")

\* C4 as stated: a successful build_index_for_doc over N chunks of which M pass
\* the filter leaves an index of exactly M vectors and a metadata sequence of
\* exactly M rows, row i describing the chunk whose vector is index row i.
C4_AsStated ==
    BuildSucceeded
      => /\ IndexRowsAligned(last.doc_id)
         /\ MetaRowsAligned(last.doc_id)
         /\ last.stats.total_chunks_indexed = Cardinality(Survivors(ChunksOf(last.doc_id)))

\* C4 amended: a successful build_index_for_doc leaves an index of exactly M
\* vectors, one per surviving chunk in chunk order, and, when it is run with
\* write_meta true (the default), a metadata sequence of exactly M rows, row i
\* carrying chunk_uid, chunk_id and page_number of the i-th surviving chunk.
C4_IndexMetaAligned ==
    BuildSucceeded
      => /\ IndexRowsAligned(last.doc_id)
         /\ last.write_meta => MetaRowsAligned(last.doc_id)
         /\ last.stats.total_chunks_loaded = Len(ChunksOf(last.doc_id))
         /\ last.stats.total_chunks_indexed = Cardinality(Survivors(ChunksOf(last.doc_id)))

\* A build with metadata in which a chunk was dropped before a surviving one.
C4_Witness ==
    /\ BuildSucceeded /\ last.write_meta
    /\ Cardinality(Survivors(ChunksOf(last.doc_id))) >= 2
    /\ \E n \in 1..Cardinality(Survivors(ChunksOf(last.doc_id))) :
          NthSurvivor(ChunksOf(last.doc_id), n) # n

\* What build_index_for_doc(d, write_meta) leaves in an empty document directory.
BuildAlone(d, write_meta, chunks) == build_index_for_doc(d, write_meta, chunks, Absent, Absent)

\* C10 as stated: after any sequence of successful builds of a document, with
\* any write_meta arguments, the persisted index and metadata are exactly
\* those the last build alone produces; nothing of an earlier build survives.
C10_AsStated ==
    BuildSucceeded
      => LET alone == BuildAlone(last.doc_id, last.write_meta, chunksFile[last.doc_id])
         IN  /\ indexFile[last.doc_id] = alone.index
             /\ metaFile[last.doc_id] = alone.meta

\* C10 amended: after any sequence of successful builds of a document the
\* persisted index is exactly the one the last build alone produces, and so is
\* the persisted metadata when the last build ran with write_meta true; a build
\* with write_meta false leaves the metadata file as it found it; and running
\* the same build twice leaves the artifacts that running it once left.
C10_RebuildWholesale ==
    [][last'.op = "build" /\ last'.outcome = "ok"
        => LET d == last'.doc_id
               alone == BuildAlone(d, last'.write_meta, chunksFile'[d])
           IN  /\ indexFile'[d] = alone.index
               /\ last'.write_meta => metaFile'[d] = alone.meta
               /\ ~last'.write_meta => metaFile'[d] = metaFile[d]
               /\ (BuildSucceeded /\ last.doc_id = d /\ last.write_meta = last'.write_meta
                     => indexFile' = indexFile /\ metaFile' = metaFile)]_vars

\* A rebuild without metadata over the artifacts of an earlier build.
C10_Witness ==
    /\ BuildSucceeded /\ ~last.write_meta
    /\ metaFile[last.doc_id] # Absent
    /\ Len(Content(indexFile[last.doc_id])) >= 2

(***************************************************************************)
(* retrieval.py                                                            *)
(***************************************************************************)
\* embed_query(query): TRUE when it raises ValueError("Query is empty.").
QueryIsBlank(query) == Strip(query) = <<>>

\* embed_query(query, normalize=True): the single row of embed_texts([strip(query)]).
embed_query(query) == embed_texts(<<Strip(query)>>)[1]

\* The inner product of two normalized rows, kept as the fraction
\* <<(u.v)^2, |u|^2 |v|^2>>; the components are never negative.
InnerProduct(u, v) ==
    LET dot == u.dir[1] * v.dir[1] + u.dir[2] * v.dir[2]
    IN  <<dot * dot, u.norm2 * v.norm2>>

ScoreLeq(s, t) == s[1] * t[2] <= t[1] * s[2]

\* The row and score FAISS reports when fewer than k vectors are stored.
NoMatch == [row |-> -1, score |-> <<-1, 1>>]

\* index.search(qvec, k) on a flat inner-product index of the vectors given:
\* the k best rows (numbered from 0) by descending score, rows of equal score
\* in any order, padded with NoMatch.  The set of the answers it may give.
IndexSearch(vectors, qvec, k) ==
    LET V == Len(vectors)
        n == Min(k, V)
        score(row) == InnerProduct(vectors[row + 1], qvec)
        picks == {p \in [1..n -> 0..(V - 1)] :
                    /\ \A i, j \in 1..n : i < j => p[i] # p[j] /\ ScoreLeq(score(p[j]), score(p[i]))
                    /\ \A r \in 0..(V - 1) :
                          (\A i \in 1..n : p[i] # r)
                            => \A i \in 1..n : ScoreLeq(score(r), score(p[i]))}
    IN  {[i \in 1..k |-> IF i <= n THEN [row |-> p[i], score |-> score(p[i])] ELSE NoMatch] :
           p \in picks}

\* _build_chunk_lookup(chunks).get(uid): the last chunk carrying that chunk_uid.
LookupHas(chunks, uid) == \E i \in 1..Len(chunks) : Get(chunks[i], "chunk_uid") = uid

LookupGet(chunks, uid) ==
    chunks[CHOOSE i \in 1..Len(chunks) :
              /\ Get(chunks[i], "chunk_uid") = uid
              /\ \A j \in 1..Len(chunks) : Get(chunks[j], "chunk_uid") = uid => j <= i]

Diagnostic(hit) == [score |-> hit.score, row |-> hit.row, error |-> "Missing chunk mapping"]

Resolved(hit, c) ==
    [score |-> hit.score, chunk_uid |-> Get(c, "chunk_uid"), chunk_id |-> Get(c, "chunk_id"),
     page_number |-> Get(c, "page_number"), text |-> Get(c, "text")]

\* The body of the loop of search_doc, lines 78-109, for one (score, row):
\* what it appends to results, or "IndexError" when meta[row] raises.
MapRow(hit, chunks, meta) ==
    IF hit.row = -1 THEN <<>>
    ELSE IF meta # Absent
    THEN IF hit.row + 1 > Len(Content(meta)) THEN "IndexError"
         ELSE LET uid == Get(Content(meta)[hit.row + 1], "chunk_uid")
              IN  IF uid # None /\ LookupHas(chunks, uid)
                  THEN <<Resolved(hit, LookupGet(chunks, uid))>>
                  ELSE <<Diagnostic(hit)>>
    ELSE IF 0 <= hit.row /\ hit.row < Len(chunks)
         THEN <<Resolved(hit, chunks[hit.row + 1])>>
         ELSE <<Diagnostic(hit)>>

\* The loop of search_doc over zip(scores_list, ids_list).
RECURSIVE MapRows(_, _, _)
MapRows(hits, chunks, meta) ==
    IF hits = <<>> THEN [outcome |-> "ok", results |-> <<>>]
    ELSE LET one == MapRow(Head(hits), chunks, meta)
         IN  IF one = "IndexError" THEN [outcome |-> "IndexError", results |-> <<>>]
             ELSE LET rest == MapRows(Tail(hits), chunks, meta)
                  IN  IF rest.outcome # "ok" THEN rest
                      ELSE [outcome |-> "ok", results |-> one \o rest.results]

\* search_doc up to the similarity search (lines 58-66): the error it raises, or "ok".
SearchEntry(query, k, chunks, index) ==
    IF k <= 0 THEN "ValueError"
    ELSE IF index = Absent \/ chunks = Absent THEN "FileNotFoundError"
    ELSE IF QueryIsBlank(query) THEN "ValueError"
    ELSE "ok"

(***************************************************************************)
(* SearchSpec: search_doc over a document directory as it is found on      *)
(* disk.  The directory is an input of search_doc, which reads three files *)
(* written at other times and, for indexes older than the metadata file,   *)
(* by other versions of the builder: chunks.json with or without chunk_uid *)
(* fields, an index of any size, and metadata that is absent or has any    *)
(* number of rows, each naming a chunk_uid or none.                        *)
(***************************************************************************)
MaxChunks == 2
MaxVectors == 2
MaxK == 3

\* The text of the chunk with the given chunk_id.
DiskText(chunk_id) == IF chunk_id % 2 = 0 THEN Rep("a", 40) ELSE Rep("b", 40) \o Rep("a", 2)

\* The identifier docid_chunkid the answer prompt shows.
DiskUid(chunk_id) == "d1_" \o ToString(chunk_id)

DiskChunk(chunk_id, with_uid) ==
    IF with_uid
    THEN [doc_id |-> "d1", chunk_id |-> chunk_id, chunk_uid |-> DiskUid(chunk_id),
          page_number |-> 1, text |-> DiskText(chunk_id)]
    ELSE [doc_id |-> "d1", chunk_id |-> chunk_id, page_number |-> 1,
          text |-> DiskText(chunk_id)]

DiskChunks == {[i \in 1..n |-> DiskChunk(i - 1, u)] : n \in 0..MaxChunks, u \in BOOLEAN}

DiskIndexes == {[i \in 1..n |-> l2_normalize(ModelEncode(DiskText(i - 1)))] : n \in 1..MaxVectors}

DiskMetaRows ==
    {[chunk_uid |-> u, chunk_id |-> 0, page_number |-> 1] :
       u \in {DiskUid(0), DiskUid(7)}}
    \cup {[chunk_id |-> 0, page_number |-> 1]}

DiskMetas == UNION {[1..n -> DiskMetaRows] : n \in 0..MaxVectors}

Queries == {<<>>, Rep(" ", 2), Rep("a", 3), Rep(" ", 1) \o Rep("b", 2) \o Rep("a", 1)}

SearchInit ==
    /\ \E f \in {File(cs) : cs \in DiskChunks} \cup {Absent} :
          chunksFile = [d \in DocIds |-> IF d = "d1" THEN f ELSE Absent]
    /\ \E f \in {File(ix) : ix \in DiskIndexes} \cup {Absent} :
          indexFile = [d \in DocIds |-> IF d = "d1" THEN f ELSE Absent]
    /\ \E f \in {File(mt) : mt \in DiskMetas} \cup {Absent} :
          metaFile = [d \in DocIds |-> IF d = "d1" THEN f ELSE Absent]
    /\ last = Idle
    /\ model = None
    /\ chunker = None /\ threads = None

\* search_doc fails before the similarity search.
SearchFails ==
    \E doc_id \in DocIds, query \in Queries, k \in 0..MaxK :
        LET entry == SearchEntry(query, k, chunksFile[doc_id], indexFile[doc_id])
        IN  /\ entry # "ok"
            /\ last' = [op |-> "search", doc_id |-> doc_id, query |-> query, k |-> k,
                        outcome |-> entry]
            /\ UNCHANGED <<chunksFile, indexFile, metaFile, model, chunker, threads>>

\* search_doc from the similarity search on, lines 66-111.
Search ==
    \E doc_id \in DocIds, query \in Queries, k \in 0..MaxK :
        /\ SearchEntry(query, k, chunksFile[doc_id], indexFile[doc_id]) = "ok"
        /\ \E hits \in IndexSearch(Content(indexFile[doc_id]), embed_query(query), k) :
              LET r == MapRows(hits, Content(chunksFile[doc_id]), metaFile[doc_id])
              IN  last' = [op |-> "search", doc_id |-> doc_id, query |-> query, k |-> k,
                           outcome |-> r.outcome, hits |-> hits, results |-> r.results]
        /\ model' = get_model(model)
        /\ UNCHANGED <<chunksFile, indexFile, metaFile, chunker, threads>>

SearchNext == SearchFails \/ Search

SearchSpec == SearchInit /\ [][SearchNext]_vars

(***************************************************************************)
(* Claims about SearchSpec.                                                *)
(***************************************************************************)
\* The last call of search_doc got as far as the similarity search.
SearchRan == last.op = "search" /\ "hits" \in DOMAIN last

\* The rows of the engine's answer that are not the no-match sentinel.
RealHits(hits) == SelectSeq(hits, LAMBDA h : h.row # -1)

IsDiagnostic(r) == DOMAIN r = {"score", "row", "error"}

IsResolved(r) == DOMAIN r = {"score", "chunk_uid", "chunk_id", "page_number", "text"}

\* C5: every row the similarity search returns yields one result, which is the
\* diagnostic record {score, row, error} when its chunk cannot be resolved
\* (the metadata row's chunk_uid is missing or not in the chunk lookup, the
\* metadata has no entry for the row, the positional fallback is out of
\* range) and the remaining results are still returned: search_doc never ends
\* in an uncaught failure because of a mapping failure.
C5_FailureIsolation ==
    SearchRan
      => /\ last.outcome = "ok"
         /\ Len(last.results) = Len(RealHits(last.hits))
         /\ \A i \in 1..Len(last.results) :
               LET r == last.results[i]
                   h == RealHits(last.hits)[i]
               IN  /\ r.score = h.score
                   /\ IsResolved(r) \/ (IsDiagnostic(r) /\ r.row = h.row)

\* C7, for a query that passes validation: for every k > 0 and every index of
\* V vectors search_doc returns without error a results list no longer than
\* min(k, V), in which no no-match row (row = -1) appears as a result or an
\* error, in the engine's descending order of similarity.
C7_SearchBound ==
    /\ last.op = "search" /\ last.k > 0 /\ ~QueryIsBlank(last.query)
    /\ indexFile[last.doc_id] # Absent /\ chunksFile[last.doc_id] # Absent
    => /\ last.outcome = "ok"
       /\ Len(last.results) <= Min(last.k, Len(Content(indexFile[last.doc_id])))
       /\ \A i \in 1..Len(last.results) :
             /\ IsDiagnostic(last.results[i]) => last.results[i].row # -1
             /\ \A j \in 1..Len(last.results) :
                   i < j => ScoreLeq(last.results[j].score, last.results[i].score)

(***************************************************************************)
(* answering.py.  The text the generative model returns is a sequence of   *)
(* tokens: whitespace, prose without braces, the code fences (with and     *)
(* without the json tag),                                                  *)
(* the braces, and between braces the members of one JSON object.  A JSON  *)
(* value carries its type, as isinstance sees it.                          *)
(***************************************************************************)
JStr == [type |-> "str"]
JList(items) == [type |-> "list", items |-> items]
JDict(fields) == [type |-> "dict", fields |-> fields]

Tok(kind) == [tok |-> kind]
Members(fields) == [tok |-> "members", fields |-> fields]

IsWs(t) == t.tok = "ws"

\* str.strip() and the \s* of the regular expressions, on tokens.
RECURSIVE LStripWs(_)
LStripWs(t) == IF t # <<>> /\ IsWs(Head(t)) THEN LStripWs(Tail(t)) ELSE t

RECURSIVE RStripWs(_)
RStripWs(t) == IF t # <<>> /\ IsWs(t[Len(t)]) THEN RStripWs(SubSeq(t, 1, Len(t) - 1)) ELSE t

StripWs(t) == RStripWs(LStripWs(t))

\* _get_text(resp): resp.text when it is a non-blank str, else the parts joined.
RECURSIVE JoinParts(_)
JoinParts(parts) == IF parts = <<>> THEN <<>> ELSE Head(parts) \o JoinParts(Tail(parts))

get_text(resp) == IF StripWs(resp.text) # <<>> THEN resp.text ELSE JoinParts(resp.parts)

\* The three re.sub calls of lines 63-65: a leading json fence with the
\* whitespace after it, a leading fence likewise, a trailing fence with the
\* whitespace before it.
DropLeading(t, kind) == IF t # <<>> /\ Head(t).tok = kind THEN LStripWs(Tail(t)) ELSE t

DropTrailing(t, kind) ==
    IF t # <<>> /\ t[Len(t)].tok = kind THEN RStripWs(SubSeq(t, 1, Len(t) - 1)) ELSE t

Unfence(t) ==
    StripWs(DropTrailing(DropLeading(DropLeading(StripWs(t), "fence_json"), "fence"), "fence"))

\* t.find("{") and t.rfind("}"), 1-based; 0 when there is none.
FindFirst(t, kind) ==
    IF \E i \in 1..Len(t) : t[i].tok = kind
    THEN CHOOSE i \in 1..Len(t) : t[i].tok = kind /\ \A j \in 1..(i - 1) : t[j].tok # kind
    ELSE 0

FindLast(t, kind) ==
    IF \E i \in 1..Len(t) : t[i].tok = kind
    THEN CHOOSE i \in 1..Len(t) : t[i].tok = kind /\ \A j \in (i + 1)..Len(t) : t[j].tok # kind
    ELSE 0

\* json.loads(candidate) for a candidate that starts with { and ends with }.
json_loads(candidate) ==
    LET c == SelectSeq(candidate, LAMBDA x : ~IsWs(x))
    IN  IF Len(c) = 2 THEN [outcome |-> "ok", data |-> <<>>]
        ELSE IF Len(c) = 3 /\ c[2].tok = "members" THEN [outcome |-> "ok", data |-> c[2].fields]
        ELSE [outcome |-> "JSONDecodeError"]

\* _extract_json(text)
extract_json(text) ==
    IF StripWs(text) = <<>> THEN [outcome |-> "ValueError"]
    ELSE LET t == Unfence(text)
             start == FindFirst(t, "{")
             end == FindLast(t, "}")
         IN  IF start = 0 \/ end = 0 \/ end <= start THEN [outcome |-> "ValueError"]
             ELSE json_loads(SubSeq(t, start, end))

\* not question or not question.strip(), line 94
QuestionIsBlank(question) == Strip(question) = <<>>

\* A plausible slip: the empty-results return is missing.
never_short_circuits(results) == FALSE

\* not results, line 97
short_circuits(results) == results = <<>>

FALLBACK == "I don't know based on the provided sources."

\* allowed, line 100
Allowed(results) ==
    {results[i].chunk_uid : i \in {j \in 1..Len(results) : "chunk_uid" \in DOMAIN results[j]}}

\* A plausible slip: the membership test of line 148 is missing.
citation_unchecked(c, allowed) == FALSE

\* c["chunk_id"] not in allowed, line 148
citation_rejected(c, allowed) == c.fields.chunk_id \notin allowed

\* The loop over data["citations"], lines 143-149: TRUE when it raises.
CitationRaises(c, allowed) ==
    \/ c.type # "dict"
    \/ ~({"chunk_id", "page", "snippet"} \subseteq DOMAIN c.fields)
    \/ citation_rejected(c, allowed)

\* Lines 133-151 on the text of the response: what the call returns or raises.
validate(text, results) ==
    LET parsed == extract_json(text)
    IN  IF parsed.outcome # "ok" THEN [outcome |-> parsed.outcome]
        ELSE IF ~({"answer", "citations"} \subseteq DOMAIN parsed.data)
        THEN [outcome |-> "ValueError"]
        ELSE IF parsed.data.citations.type # "list" THEN [outcome |-> "ValueError"]
        ELSE IF \E i \in 1..Len(parsed.data.citations.items) :
                   CitationRaises(parsed.data.citations.items[i], Allowed(results))
        THEN [outcome |-> "ValueError"]
        ELSE [outcome |-> "ok", value |-> parsed.data]

(***************************************************************************)
(* AnswerSpec: one call of answer_with_citations, from its arguments to    *)
(* its return or its exception.                                            *)
(***************************************************************************)
MaxResults == 2
MaxCitations == 2

Questions == {<<>>, Rep(" ", 2), Rep("a", 3)}

\* What search_doc returns: resolved results, of a chunk with or without a
\* chunk_uid, and diagnostic records.
ResultRecords ==
    {[score |-> <<1, 1>>, chunk_uid |-> u, chunk_id |-> 0, page_number |-> 1,
      text |-> Rep("a", 40)] : u \in {"d1_0", "d1_1", None}}
    \cup {[score |-> <<1, 1>>, row |-> 0, error |-> "Missing chunk mapping"]}

ResultLists == UNION {[1..n -> ResultRecords] : n \in 0..MaxResults}

Cite(id) == JDict([chunk_id |-> id, page |-> 1, snippet |-> "s"])

CitationValues ==
    {Cite(id) : id \in {"d1_0", "d1_2", None}}
    \cup {JDict([chunk_id |-> "d1_0", page |-> 1]), JStr}

CitationLists == UNION {[1..n -> CitationValues] : n \in 0..MaxCitations}

ObjectFields ==
    {[answer |-> JStr, citations |-> JList(cs)] : cs \in CitationLists}
    \cup {[answer |-> JStr, citations |-> JStr], [answer |-> JStr], [citations |-> JList(<<>>)]}

Object(f) == <<Tok("{"), Members(f), Tok("}")>>

GenTexts ==
    UNION {{Object(f),
            <<Tok("fence_json"), Tok("ws")>> \o Object(f) \o <<Tok("ws"), Tok("fence")>>,
            <<Tok("ws"), Tok("fence"), Tok("ws")>> \o Object(f) \o <<Tok("fence"), Tok("ws")>>,
            <<Tok("prose"), Tok("ws")>> \o Object(f) \o <<Tok("prose")>>} : f \in ObjectFields}
    \cup {<<>>, <<Tok("ws")>>, <<Tok("prose")>>, <<Tok("}"), Tok("{")>>,
          <<Tok("{"), Tok("}")>>, <<Tok("{"), Tok("prose"), Tok("}")>>,
          Object([answer |-> JStr, citations |-> JList(<<>>)]) \o <<Tok("prose")>>
            \o Object([answer |-> JStr, citations |-> JList(<<>>)])}

Responses ==
    {[text |-> t, parts |-> <<>>] : t \in GenTexts}
    \cup {[text |-> <<Tok("ws")>>, parts |-> <<<<Tok("{")>>, <<Members(f), Tok("}")>>>>] :
            f \in {[answer |-> JStr, citations |-> JList(<<Cite("d1_0")>>)],
                   [answer |-> JStr, citations |-> JList(<<Cite("d1_2")>>)]}}

AnswerInit ==
    /\ last \in {[op |-> "answer", pc |-> "call", question |-> q, results |-> rs, calls |-> 0] :
                   q \in Questions, rs \in ResultLists}
    /\ chunksFile = Absent /\ indexFile = Absent /\ metaFile = Absent
    /\ model = None /\ chunker = None /\ threads = None

AnswerOthers == UNCHANGED <<chunksFile, indexFile, metaFile, model, chunker, threads>>

\* lines 94-95
AnswerRejects ==
    /\ last.op = "answer" /\ last.pc = "call"
    /\ QuestionIsBlank(last.question)
    /\ last' = [last EXCEPT !.pc = "raised"]
    /\ AnswerOthers

\* lines 97-98
AnswerShortCircuits ==
    /\ last.op = "answer" /\ last.pc = "call"
    /\ ~QuestionIsBlank(last.question)
    /\ short_circuits(last.results)
    /\ last' = [op |-> "answer", pc |-> "returned", question |-> last.question,
                results |-> last.results, calls |-> last.calls,
                value |-> [answer |-> FALLBACK, citations |-> JList(<<>>)]]
    /\ AnswerOthers

\* lines 100-127: the prompt is built and client.models.generate_content is called.
AnswerGenerates ==
    /\ last.op = "answer" /\ last.pc = "call"
    /\ ~QuestionIsBlank(last.question)
    /\ ~short_circuits(last.results)
    /\ \E resp \in Responses :
          last' = [op |-> "answer", pc |-> "generated", question |-> last.question,
                   results |-> last.results, calls |-> last.calls + 1, resp |-> resp]
    /\ AnswerOthers

\* lines 129-151
AnswerValidates ==
    /\ last.op = "answer" /\ last.pc = "generated"
    /\ LET v == validate(get_text(last.resp), last.results)
       IN  last' = IF v.outcome = "ok"
                   THEN [op |-> "answer", pc |-> "returned", question |-> last.question,
                         results |-> last.results, calls |-> last.calls, resp |-> last.resp,
                         value |-> v.value]
                   ELSE [last EXCEPT !.pc = "raised"]
    /\ AnswerOthers

AnswerNext == AnswerRejects \/ AnswerShortCircuits \/ AnswerGenerates \/ AnswerValidates

AnswerSpec == AnswerInit /\ [][AnswerNext]_vars

(***************************************************************************)
(* Claims about AnswerSpec.                                                *)
(***************************************************************************)
AnswerDone == last.op = "answer" /\ last.pc \in {"returned", "raised"}

\* The chunk_uid values present in a retrieved-results list.
RetrievedUids(results) ==
    {r.chunk_uid : r \in {results[i] : i \in 1..Len(results)} \cap
                          {x \in ResultRecords : "chunk_uid" \in DOMAIN x}}

\* The JSON objects that occur in a text.
ObjectsIn(text) == {text[i].fields : i \in {j \in 1..Len(text) : text[j].tok = "members"}}

\* The chunk_id values the citations of an object name.
CitedIds(fields) ==
    IF "citations" \in DOMAIN fields /\ fields.citations.type = "list"
    THEN {c.fields.chunk_id :
            c \in {x \in {fields.citations.items[i] : i \in 1..Len(fields.citations.items)} :
                     x.type = "dict" /\ "chunk_id" \in DOMAIN x.fields}}
    ELSE {}

\* C1: for every question, retrieved-results list and generation output, when
\* answer_with_citations returns a value every citation in it has a chunk_id
\* that is one of the chunk_uid values of the retrieved results passed to the
\* call, and the value is the generated object unchanged; when a citation of
\* the generated object names a chunk_id outside that set the call fails
\* with an error and returns no answer.
C1_CitationGuardrail ==
    /\ last.op = "answer" /\ last.pc = "returned"
         => /\ last.value.citations.type = "list"
            /\ CitedIds(last.value) \subseteq RetrievedUids(last.results)
            /\ \A i \in 1..Len(last.value.citations.items) :
                  last.value.citations.items[i].type = "dict"
            /\ last.calls = 1 => last.value \in ObjectsIn(get_text(last.resp))
    /\ AnswerDone /\ last.calls = 1
         /\ (\E f \in ObjectsIn(get_text(last.resp)) :
                ~(CitedIds(f) \subseteq RetrievedUids(last.results)))
         => last.pc = "raised" /\ "value" \notin DOMAIN last

\* An answer returned with a citation of a retrieved chunk.
C1_Witness ==
    /\ last.op = "answer" /\ last.pc = "returned" /\ last.calls = 1
    /\ CitedIds(last.value) # {}
    /\ RetrievedUids(last.results) \ CitedIds(last.value) # {}

FallbackAnswer == [answer |-> FALLBACK, citations |-> JList(<<>>)]

\* C6 as stated: called with an empty retrieved-results list the call returns
\* the fixed answer with no citations and makes no generation call; with a
\* non-empty list it makes exactly one generation call before it returns or
\* fails.
C6_AsStated ==
    AnswerDone
      => /\ last.results = <<>>
              => last.pc = "returned" /\ last.value = FallbackAnswer /\ last.calls = 0
         /\ last.results # <<>> => last.calls = 1

\* C6 amended: for a question that is not blank, called with an empty
\* retrieved-results list the call returns the fixed answer with no citations
\* and makes no generation call, and with a non-empty list it makes exactly
\* one generation call before it returns or fails; a blank question fails
\* before any generation call, whatever the list.
C6_ShortCircuit ==
    /\ last.op = "answer" => last.calls \in {0, 1}
    /\ last.op = "answer" /\ last.pc = "generated" => last.calls = 1
    /\ AnswerDone /\ ~QuestionIsBlank(last.question)
         => /\ last.results = <<>>
                 => last.pc = "returned" /\ last.value = FallbackAnswer /\ last.calls = 0
            /\ last.results # <<>> => last.calls = 1
    /\ AnswerDone /\ QuestionIsBlank(last.question)
         => last.pc = "raised" /\ last.calls = 0

\* The short circuit taken.
C6_Witness ==
    /\ AnswerDone /\ last.results = <<>> /\ ~QuestionIsBlank(last.question)
    /\ last.pc = "returned" /\ last.calls = 0

(***************************************************************************)
(* EmbedSpec: threads making their first call of _get_model concurrently.  *)
(* The function holds no lock, so its three lines are three steps: the     *)
(* test of line 13, the constructor call and the store of line 14, and the *)
(* read of the global in line 15.                                          *)
(***************************************************************************)
EmbedThreads == {"t1", "t2", "t3"}

\* The n-th instance SentenceTransformer(_MODEL_NAME) constructs in the process.
Instance(n) == NewModel \o "#" \o ToString(n)

EmbedInit ==
    /\ model = None
    /\ threads = [t \in EmbedThreads |-> [pc |-> "test", made |-> None, used |-> None]]
    /\ last = [op |-> "get_model", constructed |-> 0]
    /\ chunksFile = Absent /\ indexFile = Absent /\ metaFile = Absent /\ chunker = None

EmbedOthers == UNCHANGED <<chunksFile, indexFile, metaFile, chunker>>

\* line 13: if _model is None
GetModelTest(t) ==
    /\ threads[t].pc = "test"
    /\ threads' = [threads EXCEPT ![t].pc = IF model = None THEN "construct" ELSE "return"]
    /\ UNCHANGED <<model, last>>
    /\ EmbedOthers

\* line 14, right-hand side: SentenceTransformer(_MODEL_NAME)
GetModelConstruct(t) ==
    /\ threads[t].pc = "construct"
    /\ threads' = [threads EXCEPT ![t].pc = "store",
                                  ![t].made = Instance(last.constructed + 1)]
    /\ last' = [last EXCEPT !.constructed = last.constructed + 1]
    /\ UNCHANGED model
    /\ EmbedOthers

\* line 14: _model = ...
GetModelStore(t) ==
    /\ threads[t].pc = "store"
    /\ model' = threads[t].made
    /\ threads' = [threads EXCEPT ![t].pc = "return"]
    /\ UNCHANGED last
    /\ EmbedOthers

\* line 15: return _model
GetModelReturn(t) ==
    /\ threads[t].pc = "return"
    /\ threads' = [threads EXCEPT ![t].pc = "done", ![t].used = model]
    /\ UNCHANGED <<model, last>>
    /\ EmbedOthers

EmbedNext ==
    \E t \in EmbedThreads :
        GetModelTest(t) \/ GetModelConstruct(t) \/ GetModelStore(t) \/ GetModelReturn(t)

EmbedSpec == EmbedInit /\ [][EmbedNext]_vars

\* C9: under any interleaving of concurrent first calls the process-wide model
\* is constructed at most once and every caller uses that same instance.
C9_SingleInitialization ==
    /\ last.constructed <= 1
    /\ \A t, u \in EmbedThreads :
          threads[t].pc = "done" /\ threads[u].pc = "done" => threads[t].used = threads[u].used

(***************************************************************************)
(* ConcSpec: two calls of build_index_for_doc and one of search_doc on the *)
(* same document, interleaved.  faiss.write_index and open(path, "w") +    *)
(* json.dump write the file in place: the file is truncated, then filled.  *)
(* A file written here is tagged with the build that wrote it and with     *)
(* whether the write has finished.                                         *)
(***************************************************************************)
Builders == {"b1", "b2"}
Readers == {"r1"}

ConcDoc == "d1"

ConcChunks == ExtractChunks(ConcDoc, <<LongText, PaddedText>>, 1, 0)

Written(by, state, data) == File([by |-> by, state |-> state, data |-> data])

ConcInit ==
    /\ chunksFile = [d \in DocIds |-> IF d = ConcDoc THEN File(ConcChunks) ELSE Absent]
    /\ indexFile = [d \in DocIds |-> Absent]
    /\ metaFile = [d \in DocIds |-> Absent]
    /\ threads = [t \in Builders \cup Readers |->
                    IF t \in Builders
                    THEN [pc |-> "start", write_meta |-> FALSE, vectors |-> <<>>, meta |-> <<>>]
                    ELSE [pc |-> "start", index_by |-> None, index_state |-> None,
                          meta_by |-> None, meta_state |-> None, outcome |-> None]]
    /\ model = None
    /\ last = Idle
    /\ chunker = None

\* indexing.py lines 72-83: the chunks are loaded, selected and embedded.
BuildLoads(b) ==
    /\ threads[b].pc = "start"
    /\ \E write_meta \in BOOLEAN :
          LET sel == select_texts_and_meta(Content(chunksFile[ConcDoc]), MIN_CHARS)
          IN  threads' = [threads EXCEPT ![b] = [pc |-> "open_index", write_meta |-> write_meta,
                                                 vectors |-> embed_texts(sel.texts),
                                                 meta |-> sel.meta]]
    /\ model' = get_model(model)
    /\ UNCHANGED <<chunksFile, indexFile, metaFile, last, chunker>>

\* line 91, faiss.write_index opens index.faiss for writing
BuildOpensIndex(b) ==
    /\ threads[b].pc = "open_index"
    /\ indexFile' = [indexFile EXCEPT ![ConcDoc] = Written(b, "partial", <<>>)]
    /\ threads' = [threads EXCEPT ![b].pc = "fill_index"]
    /\ UNCHANGED <<chunksFile, metaFile, last, model, chunker>>

\* line 91, faiss.write_index has written the index
BuildFillsIndex(b) ==
    /\ threads[b].pc = "fill_index"
    /\ indexFile' = [indexFile EXCEPT ![ConcDoc] = Written(b, "full", threads[b].vectors)]
    /\ threads' = [threads EXCEPT ![b].pc = IF threads[b].write_meta THEN "open_meta" ELSE "done"]
    /\ UNCHANGED <<chunksFile, metaFile, last, model, chunker>>

\* line 96, open(meta_path, "w")
BuildOpensMeta(b) ==
    /\ threads[b].pc = "open_meta"
    /\ metaFile' = [metaFile EXCEPT ![ConcDoc] = Written(b, "partial", <<>>)]
    /\ threads' = [threads EXCEPT ![b].pc = "fill_meta"]
    /\ UNCHANGED <<chunksFile, indexFile, last, model, chunker>>

\* line 97, json.dump and the close of the file
BuildFillsMeta(b) ==
    /\ threads[b].pc = "fill_meta"
    /\ metaFile' = [metaFile EXCEPT ![ConcDoc] = Written(b, "full", threads[b].meta)]
    /\ threads' = [threads EXCEPT ![b].pc = "done"]
    /\ UNCHANGED <<chunksFile, indexFile, last, model, chunker>>

\* retrieval.py line 61, _load_index: FileNotFoundError, or the file as it is.
SearchLoadsIndex(r) ==
    /\ threads[r].pc = "start"
    /\ threads' = [threads EXCEPT ![r] =
          IF indexFile[ConcDoc] = Absent
          THEN [@ EXCEPT !.pc = "done", !.outcome = "FileNotFoundError"]
          ELSE [@ EXCEPT !.pc = IF Content(indexFile[ConcDoc]).state = "full"
                                THEN "load_meta" ELSE "done",
                         !.outcome = IF Content(indexFile[ConcDoc]).state = "full"
                                     THEN None ELSE "RuntimeError",
                         !.index_by = Content(indexFile[ConcDoc]).by,
                         !.index_state = Content(indexFile[ConcDoc]).state]]
    /\ UNCHANGED <<chunksFile, indexFile, metaFile, last, model, chunker>>

\* lines 62-63, _load_chunks and _load_meta_if_exists: no metadata, or the
\* file as it is, which json.load rejects when it is not complete.
SearchLoadsMeta(r) ==
    /\ threads[r].pc = "load_meta"
    /\ threads' = [threads EXCEPT ![r] =
          IF metaFile[ConcDoc] = Absent
          THEN [@ EXCEPT !.pc = "search", !.meta_state = "absent"]
          ELSE [@ EXCEPT !.pc = IF Content(metaFile[ConcDoc]).state = "full"
                                THEN "search" ELSE "done",
                         !.outcome = IF Content(metaFile[ConcDoc]).state = "full"
                                     THEN None ELSE "JSONDecodeError",
                         !.meta_by = Content(metaFile[ConcDoc]).by,
                         !.meta_state = Content(metaFile[ConcDoc]).state]]
    /\ UNCHANGED <<chunksFile, indexFile, metaFile, last, model, chunker>>

\* lines 65-111 on what was loaded
SearchCompletes(r) ==
    /\ threads[r].pc = "search"
    /\ threads' = [threads EXCEPT ![r].pc = "done", ![r].outcome = "ok"]
    /\ model' = get_model(model)
    /\ UNCHANGED <<chunksFile, indexFile, metaFile, last, chunker>>

ConcNext ==
    \/ \E b \in Builders :
          \/ BuildLoads(b)
          \/ BuildOpensIndex(b)
          \/ BuildFillsIndex(b)
          \/ BuildOpensMeta(b)
          \/ BuildFillsMeta(b)
    \/ \E r \in Readers :
          \/ SearchLoadsIndex(r)
          \/ SearchLoadsMeta(r)
          \/ SearchCompletes(r)

ConcSpec == ConcInit /\ [][ConcNext]_vars

\* C8: in every interleaving of builds of a document with a search of it, the
\* search never loads a half-written index file, nor a metadata file that is
\* half-written or was not written by the build that wrote the index it
\* loaded (the artifacts being written to a temporary and then replaced).
C8_AtomicPublication ==
    \A r \in Readers :
        /\ threads[r].index_state # "partial"
        /\ threads[r].meta_state # "partial"
        /\ threads[r].meta_state = "full" => threads[r].meta_by = threads[r].index_by

=============================================================================
